---- MODULE Spec2Model ----
(***************************************************************************)
(* Graph-state core of the thought-map application: the zustand store      *)
(* useAppStore (nodes, relations, conversations, history), its mutators,   *)
(* the undo/redo history and the conversation-context resolver.            *)
(*                                                                         *)
(* Ids are strings produced by generateId in the program; here they are    *)
(* positive integers handed out by counters, and 0 stands for '' / null /  *)
(* undefined / an id that was never created.  Positions are kept in        *)
(* thousandths of a pixel so that the sine terms of the fan are integers.  *)
(***************************************************************************)
EXTENDS Integers, Sequences, FiniteSets, TLC

\* ---------------------------------------------------------------- bounds
\* what one run may use; each specification fixes its own run in lim
MaxNodes == 3       \* node ids generateId hands out
MaxRels == 2        \* relation ids generateId hands out
MaxConvs == 1       \* conversation ids generateId hands out
MaxMsgs == 1        \* messages appended to one conversation
MaxPushes == 3      \* history records pushed
TreePushes == 4     \* history records pushed in a run of SpecTree
CreateNodes == 5    \* nodes created in a run of SpecCreate
HistNodes == 1      \* node ids handed out in a run of SpecHistory
HistRels == 1       \* relation ids handed out in a run of SpecHistory
HistPushes == 1     \* history records pushed in a run of SpecHistory
ShortChain == 3     \* nodes of the short parent chain of SpecContext
LongChain == 22     \* nodes of the long parent chain: two more than the depth limit
ContextEdits == 2   \* relations added and parent lists edited in a run of SpecContext
RelationPushes == 4 \* history records pushed in a run of SpecRelation
CompositeNodes == 4 \* node ids handed out in a run of SpecComposite
CompositePushes == 6\* history records pushed in a run of SpecComposite
ChatNodes == 2      \* node ids handed out in a run of SpecChat
ChatConvs == 2      \* conversation ids handed out in a run of SpecChat
ChatMsgs == 4       \* messages of one conversation in a run of SpecChat
ChatPushes == 3     \* history records pushed in a run of SpecChat
ImportRels == 2     \* relations of a persisted state that SpecImport loads
ImportPushes == 2   \* history records pushed in a run of SpecImport
ServiceCalls == 2   \* calls of the node service in flight at once
ServiceStarts == 3  \* calls the node service accepts in a run
ServiceNodes == 3   \* node ids the node service hands out in a run
GraphNodes == 3     \* node ids handed out in a run with shared children
GraphPushes == 4    \* history records pushed in a run with shared children

\* ------------------------------------------------------ program constants
MAX_CONTEXT_DEPTH == 20
MAX_HISTORY_SIZE == 50

VARIABLES
  nodes,           \* Map<string, NodeData>: function from node id to record
  relations,       \* RelationData[]
  conversations,   \* Map<string, ConversationData>
  selectedNodeId,  \* string | null
  history,         \* HistoryRecord[]
  historyIndex,    \* number, 0-based, -1 before any record
  nextNode,        \* next node id generateId returns
  nextRel,         \* next relation id generateId returns
  nextConv,        \* next conversation id generateId returns
  nextRec,         \* next history record id generateId returns
  lim,             \* the bounds of this run, fixed by the initial state
  context,         \* the last call of getConversationContext and what it returned
  panel,           \* ChatPanel: isLoading and the chat call it awaits
  service          \* the server's NodeService: its maps and the calls in flight

vars == <<nodes, relations, conversations, selectedNodeId, history, historyIndex,
          nextNode, nextRel, nextConv, nextRec, lim, context, panel,
          service>>

\* ------------------------------------------------------------ sequences
Range(s) == {s[i] : i \in 1..Len(s)}

Includes(s, x) == \E i \in 1..Len(s) : s[i] = x

\* Array.prototype.filter(e => e # x)
RECURSIVE FilterOut(_, _)
FilterOut(s, x) ==
  IF s = <<>> THEN <<>>
  ELSE IF Head(s) = x THEN FilterOut(Tail(s), x)
       ELSE <<Head(s)>> \o FilterOut(Tail(s), x)

\* new Map(m).set(k, v)
MapSet(m, k, v) == [x \in (DOMAIN m) \cup {k} |-> IF x = k THEN v ELSE m[x]]

\* new Map(m).delete(k)
MapDelete(m, k) == [x \in (DOMAIN m) \ {k} |-> m[x]]

\* { ...a, ...b } for records given as functions on field names
Merge(a, b) == [f \in (DOMAIN a) \cup (DOMAIN b) |-> IF f \in DOMAIN b THEN b[f] ELSE a[f]]

\* ------------------------------------------------------------ positions
\* Math.sin(deg * PI / 180) * 1000 for the angles the sibling fan uses
SinMilli(deg) ==
  LET a == IF deg < 0 THEN -deg ELSE deg
      v == CASE a = 0 -> 0
             [] a = 6 -> 105
             [] a = 10 -> 174
             [] a = 15 -> 259
             [] a = 18 -> 309
             [] a = 20 -> 342
             [] a = 30 -> 500
             [] OTHER -> (a * 1000) \div 57
  IN IF deg < 0 THEN -v ELSE v

calculateNodePosition(parentNode, siblingIndex, siblingCount) ==
  LET spreadAngle == IF siblingCount > 1 THEN 60 ELSE 0
      denom == IF siblingCount - 1 = 0 THEN 1 ELSE siblingCount - 1
      \* (startAngle + angleStep * siblingIndex) in degrees
      angle == (spreadAngle * siblingIndex) \div denom - spreadAngle \div 2
      factor == IF siblingCount > 1 THEN 180 ELSE 0   \* offsetY * 1.5
  IN [x |-> parentNode.position.x + 280 * 1000,
      y |-> parentNode.position.y + SinMilli(angle) * factor]

createDefaultNode(title, position, isRoot) ==
  [title |-> title, parentIds |-> <<>>, childrenIds |-> <<>>, isRoot |-> isRoot,
   isComposite |-> FALSE, compositeChildren |-> <<>>, compositeParent |-> 0,
   hidden |-> FALSE, conversationId |-> 0, position |-> position,
   expanded |-> TRUE]

\* -------------------------------------------------------------- history
\* pushHistoryList without the shift of the oldest record
pushHistoryListNoShift(h, idx, rec) == Append(SubSeq(h, 1, idx + 1), rec)

\* pushHistoryList without the slice that drops the records after the index
pushHistoryListNoSlice(h, idx, rec) ==
  LET newHistory == Append(h, rec)
  IN IF Len(newHistory) > MAX_HISTORY_SIZE THEN Tail(newHistory) ELSE newHistory

\* the history list that pushHistory leaves
pushHistoryList(h, idx, rec) ==
  LET newHistory == Append(SubSeq(h, 1, idx + 1), rec)
  IN IF Len(newHistory) > MAX_HISTORY_SIZE THEN Tail(newHistory) ELSE newHistory

\* beforeState / afterState of a record: undefined, or a partial store state
Undefined == [defined |-> FALSE]

\* the record pushHistory builds; no caller passes beforeState or afterState
HistoryRecord(id, actionType) ==
  [id |-> id, actionType |-> actionType, beforeState |-> Undefined, afterState |-> Undefined]

pushHistory(actionType) ==
  /\ nextRec <= lim.recs
  /\ history' = pushHistoryList(history, historyIndex, HistoryRecord(nextRec, actionType))
  /\ historyIndex' = Len(history') - 1
  /\ nextRec' = nextRec + 1

\* --------------------------------------------------------------- nodes
createRootNode ==
  /\ nextNode <= lim.nodes
  /\ LET id == nextNode
         existingRoots == {n \in DOMAIN nodes : nodes[n].isRoot}
         position == [x |-> (100 + Cardinality(existingRoots) * 300) * 1000,
                      y |-> 100 * 1000]
         newNode == createDefaultNode("root", position, TRUE)
     IN /\ nodes' = MapSet(nodes, id, newNode)
        /\ selectedNodeId' = id
  /\ nextNode' = nextNode + 1
  /\ pushHistory("create_node")
  /\ UNCHANGED <<relations, conversations, nextRel, nextConv, lim, context, panel, service>>

\* the forEach of createChildNode that repositions the parent's children
RECURSIVE repositionChildren(_, _, _, _)
repositionChildren(m, parentNode, allChildren, idx) ==
  IF idx > Len(allChildren) THEN m
  ELSE LET childId == allChildren[idx]
           m2 == IF childId \in DOMAIN m
                 THEN MapSet(m, childId,
                        Merge(m[childId],
                              [position |-> calculateNodePosition(parentNode, idx - 1, Len(allChildren))]))
                 ELSE m
       IN repositionChildren(m2, parentNode, allChildren, idx + 1)

\* createChildNodes with the new id appended to the parent's parentIds instead
\* of its childrenIds
createChildNodesWrongList(m, parentId, id) ==
  LET parent == m[parentId]
      siblingCount == Len(parent.childrenIds)
      position == calculateNodePosition(parent, siblingCount, siblingCount + 1)
      newNode == Merge(createDefaultNode("branch", position, FALSE), [parentIds |-> <<parentId>>])
      m1 == MapSet(m, id, newNode)
  IN MapSet(m1, parentId, Merge(parent, [parentIds |-> Append(parent.parentIds, id)]))

\* createChildNodes with the new id put in front of the parent's childrenIds
createChildNodesPrepend(m, parentId, id) ==
  LET parent == m[parentId]
      siblingCount == Len(parent.childrenIds)
      position == calculateNodePosition(parent, siblingCount, siblingCount + 1)
      newNode == Merge(createDefaultNode("branch", position, FALSE), [parentIds |-> <<parentId>>])
      m1 == MapSet(m, id, newNode)
      updatedParent == m1[parentId]
      m2 == MapSet(m1, parentId,
              Merge(updatedParent, [childrenIds |-> <<id>> \o updatedParent.childrenIds]))
      allChildren == updatedParent.childrenIds
  IN repositionChildren(m2, updatedParent, allChildren, 1)

\* the nodes map that the set callback of createChildNode returns
createChildNodes(m, parentId, id) ==
  LET parent == m[parentId]
      siblingCount == Len(parent.childrenIds)
      position == calculateNodePosition(parent, siblingCount, siblingCount + 1)
      newNode == Merge(createDefaultNode("branch", position, FALSE), [parentIds |-> <<parentId>>])
      m1 == MapSet(m, id, newNode)
      \* updatedParent is the object read before the parent is replaced
      updatedParent == m1[parentId]
      m2 == MapSet(m1, parentId,
              Merge(updatedParent, [childrenIds |-> Append(updatedParent.childrenIds, id)]))
      allChildren == updatedParent.childrenIds
  IN repositionChildren(m2, updatedParent, allChildren, 1)

createChildNode(parentId) ==
  /\ nextNode <= lim.nodes
  /\ nextRel <= lim.rels
  /\ IF parentId \notin DOMAIN nodes
     THEN \* return '' before any set
          UNCHANGED <<nodes, relations, conversations, selectedNodeId, history,
                         historyIndex, nextNode, nextRel, nextConv, nextRec, lim, context, panel, service>>
     ELSE /\ nodes' = createChildNodes(nodes, parentId, nextNode)
          /\ relations' = Append(relations, [id |-> nextRel, sourceId |-> parentId,
                                             targetId |-> nextNode, type |-> "parent-child"])
          /\ selectedNodeId' = nextNode
          /\ nextNode' = nextNode + 1
          /\ nextRel' = nextRel + 1
          /\ pushHistory("create_node")
          /\ UNCHANGED <<conversations, nextConv, lim, context, panel, service>>

\* the forEach of addNode that links the new node into its parents
RECURSIVE linkParents(_, _, _, _)
linkParents(m, id, parentIds, idx) ==
  IF idx > Len(parentIds) THEN m
  ELSE LET parentId == parentIds[idx]
           m2 == IF parentId \in DOMAIN m /\ ~Includes(m[parentId].childrenIds, id)
                 THEN MapSet(m, parentId,
                        Merge(m[parentId], [childrenIds |-> Append(m[parentId].childrenIds, id)]))
                 ELSE m
       IN linkParents(m2, id, parentIds, idx + 1)

\* the nodes map that the set callback of addNode returns
addNodeNodes(m, id, newNode) == linkParents(MapSet(m, id, newNode), id, newNode.parentIds, 1)

\* node records a caller hands to addNode: a plain node with zero or one parent
AddNodeInputs ==
  {Merge(createDefaultNode("node", [x |-> 0, y |-> 0], FALSE), [parentIds |-> ps]) :
     ps \in {<<>>} \cup {<<p>> : p \in 1..nextNode}}

addNode(id, node) ==
  /\ nextNode <= lim.nodes
  /\ nodes' = addNodeNodes(nodes, id, node)
  /\ nextNode' = IF id = nextNode THEN nextNode + 1 ELSE nextNode
  /\ pushHistory("create_node")
  /\ UNCHANGED <<relations, conversations, selectedNodeId, nextRel, nextConv, lim, context, panel, service>>

\* the nodes map that the set callback of updateNode returns
updateNodeNodes(m, id, updates) ==
  IF id \in DOMAIN m THEN MapSet(m, id, Merge(m[id], updates)) ELSE m

\* partial node records the callers pass: the canvas un-hides a node
\* (CanvasPage), the node editor saves the edited parent list (NodeEditor)
UpdateInputs == {[hidden |-> FALSE, compositeParent |-> 0], [parentIds |-> <<>>]}

updateNode(id, updates) ==
  /\ nodes' = updateNodeNodes(nodes, id, updates)
  /\ pushHistory("update_node")
  /\ UNCHANGED <<relations, conversations, selectedNodeId, nextNode, nextRel, nextConv, lim, context, panel, service>>

\* nodes of m reachable from the set S along childrenIds
RECURSIVE ChildClosure(_, _)
ChildClosure(m, S) ==
  LET T == S \cup {c \in DOMAIN m : \E n \in S \cap DOMAIN m : Includes(m[n].childrenIds, c)}
  IN IF T = S THEN S ELSE ChildClosure(m, T)

\* deleteRecursive never returns when a cycle of childrenIds can be reached:
\* a node is removed from the map only after its children have been handled
HasChildCycle(m, id) ==
  \E n \in ChildClosure(m, {id}) \cap DOMAIN m :
    n \in ChildClosure(m, {c \in DOMAIN m : Includes(m[n].childrenIds, c)})

RECURSIVE deleteRecursive(_, _)
RECURSIVE deleteChildren(_, _, _)
\* n.childrenIds.forEach(deleteRecursive)
deleteChildren(st, childrenIds, idx) ==
  IF idx > Len(childrenIds) THEN st
  ELSE deleteChildren(deleteRecursive(st, childrenIds[idx]), childrenIds, idx + 1)

\* st = [nodes |-> newNodes, conversations |-> newConversations]
deleteRecursive(st, nodeId) ==
  IF nodeId \notin DOMAIN st.nodes THEN st
  ELSE LET n == st.nodes[nodeId]
           st1 == deleteChildren(st, n.childrenIds, 1)
           convs == IF n.conversationId # 0
                    THEN MapDelete(st1.conversations, n.conversationId)
                    ELSE st1.conversations
       IN [nodes |-> MapDelete(st1.nodes, nodeId), conversations |-> convs]

\* node.parentIds.forEach(...) of deleteNode: detach id from its parents
RECURSIVE detachFromParents(_, _, _, _)
detachFromParents(m, id, parentIds, idx) ==
  IF idx > Len(parentIds) THEN m
  ELSE LET parentId == parentIds[idx]
           m2 == IF parentId \in DOMAIN m
                 THEN MapSet(m, parentId,
                        Merge(m[parentId], [childrenIds |-> FilterOut(m[parentId].childrenIds, id)]))
                 ELSE m
       IN detachFromParents(m2, id, parentIds, idx + 1)

\* relations.filter(r => r.sourceId !== id && r.targetId !== id)
RECURSIVE withoutNode(_, _)
withoutNode(rels, id) ==
  IF rels = <<>> THEN <<>>
  ELSE IF Head(rels).sourceId # id /\ Head(rels).targetId # id
       THEN <<Head(rels)>> \o withoutNode(Tail(rels), id)
       ELSE withoutNode(Tail(rels), id)

\* the partial state that the set callback of deleteNode returns
deleteNodeState(m, rels, convs, sel, id) ==
  LET st == IF id \in DOMAIN m
            THEN LET d == deleteRecursive([nodes |-> m, conversations |-> convs], id)
                 IN [nodes |-> detachFromParents(d.nodes, id, m[id].parentIds, 1),
                     conversations |-> d.conversations]
            ELSE [nodes |-> m, conversations |-> convs]
  IN [nodes |-> st.nodes, relations |-> withoutNode(rels, id),
      conversations |-> st.conversations,
      selectedNodeId |-> IF sel = id THEN 0 ELSE sel]

deleteNode(id) ==
  IF id \in DOMAIN nodes /\ HasChildCycle(nodes, id)
  THEN \* the recursion overflows the stack inside set: nothing is stored
       UNCHANGED <<nodes, relations, conversations, selectedNodeId, history,
                      historyIndex, nextNode, nextRel, nextConv, nextRec, lim, context, panel, service>>
  ELSE /\ LET r == deleteNodeState(nodes, relations, conversations, selectedNodeId, id)
          IN /\ nodes' = r.nodes
             /\ relations' = r.relations
             /\ conversations' = r.conversations
             /\ selectedNodeId' = r.selectedNodeId
       /\ pushHistory("delete_node")
       /\ UNCHANGED <<nextNode, nextRel, nextConv, lim, context, panel, service>>

\* ------------------------------------------------------ composite nodes
\* Math.sin of q quarter degrees, 0 <= q <= 360 (a quarter turn), times 1000,
\* within 2 of the rounded value
SinQuarter(q) ==
  LET p == q * (720 - q)
  IN (4000 * p) \div (648000 - p)

\* the position expandCompositeNode gives the member at index (from 0) of
\* childCount members, fanned around the composite node
fanPosition(node, childCount, index) ==
  LET baseRadius == 200
      grown == baseRadius + (childCount - 3) * 30
      radius == IF grown > baseRadius THEN grown ELSE baseRadius
      wide == 60 + childCount * 15
      spreadAngle == IF wide < 180 THEN wide ELSE 180
      \* (startAngle + angleStep * index) in quarter degrees
      angle == IF childCount > 1
               THEN (4 * spreadAngle * index) \div (childCount - 1) - 2 * spreadAngle
               ELSE - 2 * spreadAngle
      a == IF angle < 0 THEN -angle ELSE angle
      cos == SinQuarter(360 - a)
      sin == IF angle < 0 THEN -SinQuarter(a) ELSE SinQuarter(a)
  IN [x |-> node.position.x + cos * radius, y |-> node.position.y + sin * radius]

\* nodeIds.forEach of createCompositeNode: the members that exist are hidden
\* and point back at the composite node
RECURSIVE aggregateMembers(_, _, _, _)
aggregateMembers(m, compositeId, nodeIds, idx) ==
  IF idx > Len(nodeIds) THEN m
  ELSE LET id == nodeIds[idx]
           m2 == IF id \in DOMAIN m
                 THEN MapSet(m, id, Merge(m[id], [hidden |-> TRUE, compositeParent |-> compositeId]))
                 ELSE m
       IN aggregateMembers(m2, compositeId, nodeIds, idx + 1)

\* sum of the coordinate c of the positions of the nodes of nodeIds that exist
RECURSIVE sumPositions(_, _, _, _)
sumPositions(m, nodeIds, c, idx) ==
  IF idx > Len(nodeIds) THEN 0
  ELSE (IF nodeIds[idx] \in DOMAIN m THEN m[nodeIds[idx]].position[c] ELSE 0)
       + sumPositions(m, nodeIds, c, idx + 1)

\* the nodes map that the set callback of createCompositeNode returns
createCompositeNodes(m, nodeIds, title, compositeId) ==
  LET nodesToAggregate == SelectSeq(nodeIds, LAMBDA id : id \in DOMAIN m)
  IN IF Len(nodesToAggregate) = 0 THEN m
     ELSE LET center == [x |-> sumPositions(m, nodeIds, "x", 1) \div Len(nodesToAggregate),
                         y |-> sumPositions(m, nodeIds, "y", 1) \div Len(nodesToAggregate)]
              compositeNode ==
                [title |-> title, parentIds |-> <<>>, childrenIds |-> <<>>, isRoot |-> FALSE,
                 isComposite |-> TRUE, compositeChildren |-> nodeIds, compositeParent |-> 0,
                 hidden |-> FALSE, conversationId |-> 0, position |-> center,
                 expanded |-> FALSE]
          IN aggregateMembers(MapSet(m, compositeId, compositeNode), compositeId, nodeIds, 1)

createCompositeNode(nodeIds, title) ==
  /\ nextNode <= lim.nodes
  /\ nodes' = createCompositeNodes(nodes, nodeIds, title, nextNode)
  /\ nextNode' = IF nodes' = nodes THEN nextNode ELSE nextNode + 1
  /\ pushHistory("create_node")
  /\ UNCHANGED <<relations, conversations, selectedNodeId, nextRel, nextConv, lim, context, panel, service>>

\* compositeChildren.forEach of the collapsing branch of expandCompositeNode
RECURSIVE collapseMembers(_, _, _, _)
collapseMembers(m, nodeId, compositeChildren, idx) ==
  IF idx > Len(compositeChildren) THEN m
  ELSE LET childId == compositeChildren[idx]
           m2 == IF childId \in DOMAIN m
                 THEN MapSet(m, childId,
                        Merge(m[childId], [hidden |-> TRUE, compositeParent |-> nodeId]))
                 ELSE m
       IN collapseMembers(m2, nodeId, compositeChildren, idx + 1)

\* compositeChildren.forEach of the expanding branch of expandCompositeNode
RECURSIVE expandMembers(_, _, _, _, _)
expandMembers(m, node, nodeId, compositeChildren, idx) ==
  IF idx > Len(compositeChildren) THEN m
  ELSE LET childId == compositeChildren[idx]
           m2 == IF childId \in DOMAIN m
                 THEN MapSet(m, childId,
                        Merge(m[childId],
                              [hidden |-> FALSE, compositeParent |-> nodeId,
                               position |-> fanPosition(node, Len(compositeChildren), idx - 1)]))
                 ELSE m
       IN expandMembers(m2, node, nodeId, compositeChildren, idx + 1)

\* expandCompositeNodes whose expanding branch leaves the members hidden
expandCompositeNodesKeepHidden(m, nodeId) ==
  IF nodeId \in DOMAIN m /\ m[nodeId].isComposite
  THEN LET node == m[nodeId]
       IN IF node.expanded
          THEN MapSet(collapseMembers(m, nodeId, node.compositeChildren, 1), nodeId,
                      Merge(node, [expanded |-> FALSE]))
          ELSE MapSet(collapseMembers(m, nodeId, node.compositeChildren, 1), nodeId,
                      Merge(node, [expanded |-> TRUE]))
  ELSE m

\* the nodes map that the set callback of expandCompositeNode returns
expandCompositeNodes(m, nodeId) ==
  IF nodeId \in DOMAIN m /\ m[nodeId].isComposite
  THEN LET node == m[nodeId]
       IN IF node.expanded
          THEN MapSet(collapseMembers(m, nodeId, node.compositeChildren, 1), nodeId,
                      Merge(node, [expanded |-> FALSE]))
          ELSE MapSet(expandMembers(m, node, nodeId, node.compositeChildren, 1), nodeId,
                      Merge(node, [expanded |-> TRUE]))
  ELSE m

expandCompositeNode(nodeId) ==
  /\ nodes' = expandCompositeNodes(nodes, nodeId)
  /\ pushHistory("update_node")
  /\ UNCHANGED <<relations, conversations, selectedNodeId, nextNode, nextRel, nextConv, lim, context, panel, service>>

\* ------------------------------------------------------------ relations
RelationTypes == {"parent-child", "supports"}

addRelation(sourceId, targetId, type) ==
  /\ nextRel <= lim.rels
  /\ relations' = Append(relations, [id |-> nextRel, sourceId |-> sourceId,
                                     targetId |-> targetId, type |-> type])
  /\ nextRel' = nextRel + 1
  /\ pushHistory("create_relation")
  /\ UNCHANGED <<nodes, conversations, selectedNodeId, nextNode, nextConv, lim, context, panel, service>>

\* relations.filter(r => r.id !== id)
RECURSIVE withoutRelation(_, _)
withoutRelation(rels, id) ==
  IF rels = <<>> THEN <<>>
  ELSE IF Head(rels).id # id
       THEN <<Head(rels)>> \o withoutRelation(Tail(rels), id)
       ELSE withoutRelation(Tail(rels), id)

\* deleteRelation without its pushHistory call
deleteRelationNoPush(id) ==
  /\ relations' = withoutRelation(relations, id)
  /\ UNCHANGED <<nodes, conversations, selectedNodeId, history, historyIndex, nextNode,
                 nextRel, nextConv, nextRec, lim, context, panel, service>>

deleteRelation(id) ==
  /\ relations' = withoutRelation(relations, id)
  /\ pushHistory("delete_relation")
  /\ UNCHANGED <<nodes, conversations, selectedNodeId, nextNode, nextRel, nextConv, lim, context, panel, service>>

\* -------------------------------------------------------- conversations
\* the partial state that the set callback of addConversation returns
addConversationState(m, convs, nodeId, id) ==
  [conversations |-> MapSet(convs, id, [nodeId |-> nodeId, messages |-> <<>>]),
   nodes |-> IF nodeId \in DOMAIN m
             THEN MapSet(m, nodeId, Merge(m[nodeId], [conversationId |-> id]))
             ELSE m]

addConversation(nodeId) ==
  /\ nextConv <= lim.convs
  /\ conversations' = addConversationState(nodes, conversations, nodeId, nextConv).conversations
  /\ nodes' = addConversationState(nodes, conversations, nodeId, nextConv).nodes
  /\ nextConv' = nextConv + 1
  /\ UNCHANGED <<relations, selectedNodeId, history, historyIndex, nextNode, nextRel,
                 nextRec, lim, context, panel, service>>

Roles == {"user"}

\* the conversations map that the set callback of addMessage returns
addMessageConversations(convs, conversationId, message) ==
  IF conversationId \in DOMAIN convs
  THEN MapSet(convs, conversationId,
         Merge(convs[conversationId],
               [messages |-> Append(convs[conversationId].messages, message)]))
  ELSE convs

addMessage(conversationId, message) ==
  /\ conversationId \in DOMAIN conversations
       => Len(conversations[conversationId].messages) < lim.msgs
  /\ conversations' = addMessageConversations(conversations, conversationId, message)
  /\ UNCHANGED <<nodes, relations, selectedNodeId, history, historyIndex, nextNode,
                 nextRel, nextConv, nextRec, lim, context, panel, service>>

\* -------------------------------------------------- conversation context
\* context before getConversationContext was ever called
NoContext ==
  [nodeId |-> 0, messages |-> <<>>, nodeOrder |-> <<>>, calls |-> 0, returned |-> TRUE]

\* The run of collectNodeOrder inside one call of getConversationContext, as
\* the machine that executes the recursion.  Its state st is
\*   visitedNodes, nodeOrder   the two variables of the closure
\*   calls                     the calls of collectNodeOrder made so far
\*   stack                     the calls that have not returned, outermost first;
\*                             a frame is [id, depth, ids, k]: the call for node
\*                             id at this depth makes the inner calls ids, in
\*                             this order, and has made the first k of them
\* A call that returns before its forEach loops leaves no frame.

\* calledFrom that also descends into the children of the node
calledFromWithChildren(rels, currentNodeId, currentNode) ==
  LET into == SelectSeq(rels, LAMBDA relation : relation.targetId = currentNodeId)
  IN currentNode.parentIds \o [i \in 1..Len(into) |-> into[i].sourceId]
     \o currentNode.childrenIds

\* the ids collectNodeOrder is called with from inside the call for currentNode,
\* in call order: currentNode.parentIds.forEach(...), then relations.forEach(...),
\* which calls it with the sourceId of each relation whose targetId is the node
calledFrom(rels, currentNodeId, currentNode) ==
  LET into == SelectSeq(rels, LAMBDA relation : relation.targetId = currentNodeId)
  IN currentNode.parentIds \o [i \in 1..Len(into) |-> into[i].sourceId]

\* collectNodeOrderEnter that does not mark the node the run starts from
collectNodeOrderEnterStartUnmarked(m, rels, st, currentNodeId, depth) ==
  IF currentNodeId \in st.visitedNodes \/ depth > MAX_CONTEXT_DEPTH
  THEN [st EXCEPT !.calls = @ + 1]
  ELSE IF currentNodeId \notin DOMAIN m
  THEN [st EXCEPT !.calls = @ + 1, !.visitedNodes = @ \cup {currentNodeId}]
  ELSE [st EXCEPT !.calls = @ + 1,
                  !.visitedNodes = IF depth = 0 THEN @ ELSE @ \cup {currentNodeId},
                  !.stack = Append(@, [id |-> currentNodeId, depth |-> depth, k |-> 0,
                                       ids |-> calledFrom(rels, currentNodeId, m[currentNodeId])])]

\* collectNodeOrder(currentNodeId, depth) from its first line to its first inner
\* call: the two early returns, visitedNodes.add, and the start of the loops
collectNodeOrderEnter(m, rels, st, currentNodeId, depth) ==
  IF currentNodeId \in st.visitedNodes \/ depth > MAX_CONTEXT_DEPTH
  THEN [st EXCEPT !.calls = @ + 1]
  ELSE IF currentNodeId \notin DOMAIN m
  THEN [st EXCEPT !.calls = @ + 1, !.visitedNodes = @ \cup {currentNodeId}]
  ELSE [st EXCEPT !.calls = @ + 1,
                  !.visitedNodes = @ \cup {currentNodeId},
                  !.stack = Append(@, [id |-> currentNodeId, depth |-> depth, k |-> 0,
                                       ids |-> calledFrom(rels, currentNodeId, m[currentNodeId])])]

\* one step of the innermost call: its next inner call at depth + 1, or, after
\* the last one, nodeOrder.push(currentNodeId) and the return
collectNodeOrderStep(m, rels, st) ==
  IF st.stack = <<>> THEN st
  ELSE LET top == st.stack[Len(st.stack)]
       IN IF top.k < Len(top.ids)
          THEN collectNodeOrderEnter(m, rels, [st EXCEPT !.stack[Len(st.stack)].k = @ + 1],
                                     top.ids[top.k + 1], top.depth + 1)
          ELSE [st EXCEPT !.nodeOrder = Append(@, top.id),
                          !.stack = SubSeq(@, 1, Len(@) - 1)]

\* up to n steps, one after the other, until every call has returned
RECURSIVE collectNodeOrderSteps(_, _, _, _)
collectNodeOrderSteps(m, rels, st, n) ==
  IF n <= 1 THEN collectNodeOrderStep(m, rels, st)
  ELSE LET half == collectNodeOrderSteps(m, rels, st, n \div 2)
       IN IF half.stack = <<>> THEN half
          ELSE collectNodeOrderSteps(m, rels, half, n - n \div 2)

\* the parent links of the nodes ids of m
RECURSIVE ParentLinks(_, _)
ParentLinks(m, ids) ==
  IF ids = {} THEN 0
  ELSE LET n == CHOOSE x \in ids : TRUE
       IN Len(m[n].parentIds) + ParentLinks(m, ids \ {n})

\* every call but the first is made for a parent link or for a relation, and
\* each node makes its calls once
MaxCalls(m, rels) == 1 + ParentLinks(m, DOMAIN m) + Len(rels)

\* collectNodeOrder(nodeId): the run, for as many steps as MaxCalls calls and
\* their returns take
collectNodeOrder(m, rels, nodeId) ==
  collectNodeOrderSteps(m, rels,
    collectNodeOrderEnter(m, rels,
      [visitedNodes |-> {}, nodeOrder |-> <<>>, calls |-> 0, stack |-> <<>>], nodeId, 0),
    2 * MaxCalls(m, rels))

\* the system message that opens the block of a node
nodeMarker(node) == [role |-> "system", content |-> [marker |-> node.title]]

\* nodeOrder.forEach(orderedNodeId => ...): the messages pushed from idx on
RECURSIVE contextMessages(_, _, _, _)
contextMessages(m, convs, nodeOrder, idx) ==
  IF idx > Len(nodeOrder) THEN <<>>
  ELSE LET orderedNodeId == nodeOrder[idx]
           block ==
             IF orderedNodeId \notin DOMAIN m THEN <<>>
             ELSE LET node == m[orderedNodeId]
                  IN IF node.conversationId # 0
                        /\ node.conversationId \in DOMAIN convs
                        /\ Len(convs[node.conversationId].messages) > 0
                     THEN <<nodeMarker(node)>> \o
                          [i \in 1..Len(convs[node.conversationId].messages) |->
                             [role |-> convs[node.conversationId].messages[i].role,
                              content |-> convs[node.conversationId].messages[i].content]]
                     ELSE <<>>
       IN block \o contextMessages(m, convs, nodeOrder, idx + 1)

\* what a call returns (messages), with the nodeOrder and the call count of its
\* closure, and whether collectNodeOrder has returned
conversationContext(m, rels, convs, nodeId) ==
  LET st == collectNodeOrder(m, rels, nodeId)
  IN [nodeId |-> nodeId, messages |-> contextMessages(m, convs, st.nodeOrder, 1),
      nodeOrder |-> st.nodeOrder, calls |-> st.calls, returned |-> st.stack = <<>>]

getConversationContext(nodeId) ==
  /\ context' = conversationContext(nodes, relations, conversations, nodeId)
  /\ UNCHANGED <<nodes, relations, conversations, selectedNodeId, history, historyIndex,
                 nextNode, nextRel, nextConv, nextRec, lim, panel, service>>

\* ----------------------------------------------------------- chat panel
selectNode(id) ==
  /\ selectedNodeId' = id
  /\ UNCHANGED <<nodes, relations, conversations, history, historyIndex, nextNode, nextRel,
                 nextConv, nextRec, lim, context, panel, service>>

clearConversation(conversationId) ==
  /\ conversations' =
       IF conversationId \in DOMAIN conversations
       THEN MapSet(conversations, conversationId,
              Merge(conversations[conversationId], [messages |-> <<>>]))
       ELSE conversations
  /\ UNCHANGED <<nodes, relations, selectedNodeId, history, historyIndex, nextNode, nextRel,
                 nextConv, nextRec, lim, context, panel, service>>

\* the panel with no call in flight; nodeId, convId and allMessages are the
\* variables of the handleSend that awaits its call
IdlePanel ==
  [isLoading |-> FALSE, error |-> FALSE, nodeId |-> 0, convId |-> 0, allMessages |-> <<>>]

\* what chatService.sendMessage resolves to
ChatResults ==
  {[success |-> TRUE, content |-> "reply"],
   [success |-> TRUE, content |-> ""],
   [success |-> FALSE, content |-> ""]}

\* handleSend up to its await; the panel shows the selected node and the user
\* has typed a message.  What is typed differs from turn to turn (it carries
\* the conversation and the place it is stored at), so that a turn can be told
\* from the earlier ones.
handleSend ==
  /\ ~panel.isLoading
  /\ selectedNodeId # 0
  /\ LET nodeId == selectedNodeId
         shown == IF nodeId \in DOMAIN nodes THEN nodes[nodeId].conversationId ELSE 0
         convId == IF shown = 0 THEN nextConv ELSE shown
         st == IF shown = 0
               THEN addConversationState(nodes, conversations, nodeId, nextConv)
               ELSE [conversations |-> conversations, nodes |-> nodes]
         place == IF convId \in DOMAIN st.conversations
                  THEN Len(st.conversations[convId].messages) + 1 ELSE 1
         userMessage == [text |-> "question", turn |-> <<convId, place>>]
         convs == addMessageConversations(st.conversations, convId,
                    [role |-> "user", content |-> userMessage])
         resolved == conversationContext(st.nodes, relations, convs, nodeId)
         allMessages == resolved.messages \o <<[role |-> "user", content |-> userMessage]>>
     IN /\ shown = 0 => nextConv <= lim.convs
        /\ convId \in DOMAIN st.conversations
             => Len(st.conversations[convId].messages) + 2 <= lim.msgs
        /\ nodes' = st.nodes
        /\ conversations' = convs
        /\ nextConv' = IF shown = 0 THEN nextConv + 1 ELSE nextConv
        /\ context' = resolved
        /\ panel' = [isLoading |-> TRUE, error |-> FALSE, nodeId |-> nodeId, convId |-> convId,
                      allMessages |-> allMessages]
  /\ UNCHANGED <<relations, selectedNodeId, history, historyIndex, nextNode, nextRel,
                 nextRec, lim, service>>

\* handleSendResume that stores the reply in the conversation of the node
\* selected when the call returns
handleSendResumeToSelected(result) ==
  /\ panel.isLoading
  /\ IF result.success /\ result.content # ""
     THEN /\ conversations' =
               addMessageConversations(conversations,
                 IF selectedNodeId \in DOMAIN nodes THEN nodes[selectedNodeId].conversationId ELSE 0,
                 [role |-> "assistant", content |-> [text |-> result.content]])
          /\ panel' = IdlePanel
     ELSE /\ conversations' = conversations
          /\ panel' = [IdlePanel EXCEPT !.error = TRUE]
  /\ UNCHANGED <<nodes, relations, selectedNodeId, history, historyIndex, nextNode, nextRel,
                 nextConv, nextRec, lim, context, service>>

\* handleSend from the moment its call returns result
handleSendResume(result) ==
  /\ panel.isLoading
  /\ IF result.success /\ result.content # ""
     THEN /\ conversations' =
               addMessageConversations(conversations, panel.convId,
                 [role |-> "assistant", content |-> [text |-> result.content]])
          /\ panel' = IdlePanel
     ELSE /\ conversations' = conversations
          /\ panel' = [IdlePanel EXCEPT !.error = TRUE]
  /\ UNCHANGED <<nodes, relations, selectedNodeId, history, historyIndex, nextNode, nextRel,
                 nextConv, nextRec, lim, context, service>>

\* handleClear: the conversation the panel shows is emptied
handleClear ==
  /\ selectedNodeId \in DOMAIN nodes
  /\ nodes[selectedNodeId].conversationId \in DOMAIN conversations
  /\ clearConversation(nodes[selectedNodeId].conversationId)

\* ----------------------------------------------------------- undo / redo
\* the part of the store that undo and redo read and write
Store(n, r, c, h, i) ==
  [nodes |-> n, relations |-> r, conversations |-> c, history |-> h, historyIndex |-> i]

\* if (state) set(state): merge a partial store state, when there is one
setState(s, partial) == IF partial.defined THEN Merge(s, partial.state) ELSE s

undoStore(s) ==
  IF s.historyIndex >= 0
  THEN Merge(setState(s, s.history[s.historyIndex + 1].beforeState),
             [historyIndex |-> s.historyIndex - 1])
  ELSE s

redoStore(s) ==
  IF s.historyIndex < Len(s.history) - 1
  THEN Merge(setState(s, s.history[s.historyIndex + 2].afterState),
             [historyIndex |-> s.historyIndex + 1])
  ELSE s

\* write a value of Store back
setStore(r) ==
  /\ nodes' = r.nodes
  /\ relations' = r.relations
  /\ conversations' = r.conversations
  /\ history' = r.history
  /\ historyIndex' = r.historyIndex

undo ==
  /\ setStore(undoStore(Store(nodes, relations, conversations, history, historyIndex)))
  /\ UNCHANGED <<selectedNodeId, nextNode, nextRel, nextConv, nextRec, lim, context, panel, service>>

redo ==
  /\ setStore(redoStore(Store(nodes, relations, conversations, history, historyIndex)))
  /\ UNCHANGED <<selectedNodeId, nextNode, nextRel, nextConv, nextRec, lim, context, panel, service>>

\* ------------------------------------------------- persisted store, reloaded
\* an id field of a parsed JSON object; 0 stands for undefined, null and ''
Field(r, f) == IF f \in DOMAIN r THEN r[f] ELSE 0

\* ?? of migrateNodeData
Coalesce(r, f, default) == IF f \in DOMAIN r THEN r[f] ELSE default

migrateNodeData(node) ==
  Merge(node,
        [hidden |-> Coalesce(node, "hidden", FALSE),
         expanded |-> Coalesce(node, "expanded", TRUE),
         compositeParent |-> Coalesce(node, "compositeParent", 0),
         compositeChildren |-> Coalesce(node, "compositeChildren", <<>>),
         parentIds |-> Coalesce(node, "parentIds", <<>>),
         childrenIds |-> Coalesce(node, "childrenIds", <<>>)])

\* r && r.type && r.id && r.sourceId && r.targetId; null is the record without fields
WellFormedRelation(r) ==
  /\ "type" \in DOMAIN r /\ r.type # ""
  /\ Field(r, "id") # 0
  /\ Field(r, "sourceId") # 0
  /\ Field(r, "targetId") # 0

\* stored is what JSON.parse gave for relations: nothing that is an array
\* (format "none"), an array of relations ("list") or an array of [id, relation]
\* pairs, as an older version of the store wrote them ("entries")
migrateRelationsData(stored) ==
  IF stored.format = "none" \/ Len(stored.items) = 0 THEN <<>>
  ELSE IF stored.format = "entries"
       THEN SelectSeq([i \in 1..Len(stored.items) |-> stored.items[i][2]], WellFormedRelation)
       ELSE SelectSeq(stored.items, WellFormedRelation)

\* new Map(entries): a later entry of a key replaces an earlier one
RECURSIVE mapOfEntries(_, _)
mapOfEntries(entries, idx) ==
  IF idx = 0 THEN <<>>
  ELSE MapSet(mapOfEntries(entries, idx - 1), entries[idx][1], entries[idx][2])

\* Array.from(map.entries()), in the order of the keys
RECURSIVE entriesOf(_, _)
entriesOf(m, keys) ==
  IF keys = {} THEN <<>>
  ELSE LET k == CHOOSE x \in keys : \A y \in keys : x <= y
       IN <<(<<k, m[k]>>)>> \o entriesOf(m, keys \ {k})

\* what the persist middleware writes after every change of the store
partialize ==
  [nodes |-> entriesOf(nodes, DOMAIN nodes),
   relations |-> [format |-> "list", items |-> relations],
   conversations |-> entriesOf(conversations, DOMAIN conversations)]

\* the largest key of the entries, 0 when there is none
MaxKey(entries) ==
  LET keys == {entries[i][1] : i \in 1..Len(entries)}
  IN IF keys = {} THEN 0 ELSE CHOOSE x \in keys : \A y \in keys : y <= x

\* the page is loaded: the store is constructed and the persisted state is
\* merged into it and passed to onRehydrateStorage; what is not persisted
\* starts as in the initial state, and generateId goes on giving fresh ids
rehydrate(persisted) ==
  /\ nodes' = LET loaded == mapOfEntries(persisted.nodes, Len(persisted.nodes))
              IN [id \in DOMAIN loaded |-> migrateNodeData(loaded[id])]
  /\ relations' = migrateRelationsData(persisted.relations)
  /\ conversations' = mapOfEntries(persisted.conversations, Len(persisted.conversations))
  /\ selectedNodeId' = 0
  /\ history' = <<>>
  /\ historyIndex' = -1
  /\ panel' = IdlePanel
  /\ context' = NoContext
  /\ nextNode' = IF MaxKey(persisted.nodes) < nextNode THEN nextNode
                 ELSE MaxKey(persisted.nodes) + 1
  /\ nextRel' = LET ids == {Field(relations'[i], "id") : i \in 1..Len(relations')}
                    top == IF ids = {} THEN 0 ELSE CHOOSE x \in ids : \A y \in ids : y <= x
                IN IF top < nextRel THEN nextRel ELSE top + 1
  /\ UNCHANGED <<nextConv, nextRec, lim, service>>

\* ------------------------------------------------- server: NodeService
\* The service keeps memoryNodes and memoryRelations and mirrors them to
\* neo4j when neo4jService.isConnected().  Its methods are async: a call runs
\* until an await, is suspended there, and other calls run in between.  A
\* call is a record of the method, the await it is suspended at and its
\* locals; a node or relation that may be null is a sequence of length 0 or 1.
DEFAULT_POSITION == [x |-> 100, y |-> 100]

NoCall ==
  [op |-> "", pc |-> "idle", parentId |-> 0, parent |-> <<>>, node |-> <<>>, child |-> 0,
   existing |-> <<>>, updated |-> <<>>, sourceId |-> 0, targetId |-> 0, type |-> "",
   sourceNode |-> <<>>, targetNode |-> <<>>, relation |-> <<>>, result |-> 0]

\* new NodeService(), no request accepted yet
IdleService ==
  [memoryNodes |-> <<>>, memoryRelations |-> <<>>, connected |-> FALSE,
   nextNode |-> 1, nextRel |-> 1, started |-> 0, calls |-> <<>>]

\* getNode for a node the memory map holds or nobody holds
getNode(s, id) == IF id \in DOMAIN s.memoryNodes THEN <<s.memoryNodes[id]>> ELSE <<>>

\* the call in slot c settles: the promise resolves with an id or rejects
returned(s, c, id) ==
  [s EXCEPT !.calls[c] = [NoCall EXCEPT !.op = s.calls[c].op, !.pc = "returned", !.result = id]]

thrown(s, c) ==
  [s EXCEPT !.calls[c] = [NoCall EXCEPT !.op = s.calls[c].op, !.pc = "thrown"]]

\* createNode from memoryNodes.set on
createNodeSet(s, c) ==
  LET node == s.calls[c].node[1]
  IN [s EXCEPT !.memoryNodes = MapSet(s.memoryNodes, node.id, node),
               !.calls[c].pc = "createNode"]

\* createNode up to its await, for a caller that passes no id
createNode(s, c, nodeData) ==
  LET node == [id |-> s.nextNode, isRoot |-> nodeData.isRoot, position |-> nodeData.position,
               parentIds |-> nodeData.parentIds, childrenIds |-> <<>>]
      built == [s EXCEPT !.nextNode = s.nextNode + 1, !.calls[c].node = <<node>>]
  IN IF s.connected
     THEN [built EXCEPT !.calls[c].pc = "createNode.runQuery"]
     ELSE createNodeSet(built, c)

\* updateNode(id, {childrenIds}) up to its first await
updateNodeCall(s, c, id) ==
  [s EXCEPT !.calls[c].existing = getNode(s, id), !.calls[c].pc = "updateNode.getNode"]

\* updateNode from memoryNodes.set on
updateNodeSet(s, c) ==
  LET updated == s.calls[c].updated[1]
  IN [s EXCEPT !.memoryNodes = MapSet(s.memoryNodes, updated.id, updated),
               !.calls[c].pc = "updateNode"]

\* updateNode after getNode: the childrenIds of the update replace the stored
updateNodeMerge(s, c, childrenIds) ==
  LET call == s.calls[c]
  IN IF call.existing = <<>>
     THEN [s EXCEPT !.calls[c].pc = "updateNode"]
     ELSE LET merged == [s EXCEPT !.calls[c].updated =
                                     <<[call.existing[1] EXCEPT !.childrenIds = childrenIds]>>]
          IN IF s.connected
             THEN [merged EXCEPT !.calls[c].pc = "updateNode.runQuery"]
             ELSE updateNodeSet(merged, c)

\* createRelation up to its first await
createRelationCall(s, c, sourceId, targetId, type) ==
  IF sourceId = 0 \/ targetId = 0
  THEN thrown(s, c)
  ELSE [s EXCEPT !.calls[c].sourceId = sourceId, !.calls[c].targetId = targetId,
                 !.calls[c].type = type,
                 !.calls[c].sourceNode = getNode(s, sourceId),
                 !.calls[c].pc = "createRelation.source"]

\* memoryRelations.find(r => same sourceId, targetId and type)
existingRelation(rels, call) ==
  LET hits == {i \in 1..Len(rels) : /\ rels[i].sourceId = call.sourceId
                                    /\ rels[i].targetId = call.targetId
                                    /\ rels[i].type = call.type}
  IN IF hits = {} THEN <<>>
     ELSE <<rels[CHOOSE i \in hits : \A j \in hits : i <= j]>>

\* what createRelation resolves with for its caller
createRelationReturn(s, c, relationId) ==
  IF s.calls[c].op = "createChildNode"
  THEN returned(s, c, s.calls[c].child)
  ELSE returned(s, c, relationId)

\* createRelation from memoryRelations.push on
createRelationPush(s, c) ==
  LET relation == s.calls[c].relation[1]
  IN createRelationReturn([s EXCEPT !.memoryRelations = Append(s.memoryRelations, relation)],
                          c, relation.id)

\* createRelation after both getNode calls
createRelationFind(s, c) ==
  LET call == s.calls[c]
      found == existingRelation(s.memoryRelations, call)
      relation == [id |-> s.nextRel, sourceId |-> call.sourceId, targetId |-> call.targetId,
                   type |-> call.type]
      built == [s EXCEPT !.nextRel = s.nextRel + 1, !.calls[c].relation = <<relation>>]
  IN IF call.sourceNode = <<>> \/ call.targetNode = <<>>
     THEN thrown(s, c)
     ELSE IF found # <<>>
          THEN createRelationReturn(s, c, found[1].id)
          ELSE IF s.connected
               THEN [built EXCEPT !.calls[c].pc = "createRelation.runQuery"]
               ELSE createRelationPush(built, c)

\* createChildNode after getNode(parentId)
createChildNodeCreate(s, c) ==
  LET call == s.calls[c]
      parent == call.parent[1]
      siblingCount == Len(parent.childrenIds)
      position == [x |-> parent.position.x + 250, y |-> parent.position.y + siblingCount * 120]
  IN IF call.parent = <<>>
     THEN thrown(s, c)
     ELSE createNode(s, c, [parentIds |-> <<call.parentId>>, position |-> position,
                            isRoot |-> FALSE])

\* the call in slot c continues from the await it is suspended at and runs to
\* its next await or to its end
resumeCall(s, c) ==
  LET call == s.calls[c]
  IN CASE call.pc = "getNode" -> createChildNodeCreate(s, c)
       [] call.pc = "createNode.runQuery" -> createNodeSet(s, c)
       [] call.pc = "createNode" ->
            IF call.op = "createNode"
            THEN returned(s, c, call.node[1].id)
            ELSE updateNodeCall([s EXCEPT !.calls[c].child = call.node[1].id], c, call.parentId)
       [] call.pc = "updateNode.getNode" ->
            updateNodeMerge(s, c, Append(call.parent[1].childrenIds, call.child))
       [] call.pc = "updateNode.runQuery" -> updateNodeSet(s, c)
       [] call.pc = "updateNode" ->
            createRelationCall(s, c, call.parentId, call.child, "parent-child")
       [] call.pc = "createRelation.source" ->
            [s EXCEPT !.calls[c].targetNode = getNode(s, call.targetId),
                      !.calls[c].pc = "createRelation.target"]
       [] call.pc = "createRelation.target" -> createRelationFind(s, c)
       [] call.pc = "createRelation.runQuery" -> createRelationPush(s, c)
       [] OTHER -> s

Settled(call) == call.pc \in {"idle", "returned", "thrown"}

\* a request starts in a free slot and runs to its first await
startCall(s, c, op) ==
  [s EXCEPT !.started = s.started + 1, !.calls[c] = [NoCall EXCEPT !.op = op]]

CanStart(c) ==
  /\ c \in DOMAIN service.calls
  /\ Settled(service.calls[c])
  /\ service.started < lim.calls

ServiceStep(next) ==
  /\ service' = next
  /\ UNCHANGED <<nodes, relations, conversations, selectedNodeId, history, historyIndex,
                 nextNode, nextRel, nextConv, nextRec, lim, context, panel>>

\* POST /nodes: nodeService.createNode({isRoot: true})
NodeService_createNode(c) ==
  /\ CanStart(c)
  /\ service.nextNode <= lim.nodes
  /\ ServiceStep(createNode(startCall(service, c, "createNode"), c,
                            [parentIds |-> <<>>, position |-> DEFAULT_POSITION,
                             isRoot |-> TRUE]))

\* POST /nodes/:id/child: nodeService.createChildNode(parentId, title)
NodeService_createChildNode(c, parentId) ==
  /\ CanStart(c)
  /\ service.nextNode <= lim.nodes
  /\ LET s == startCall(service, c, "createChildNode")
     IN ServiceStep([s EXCEPT !.calls[c].parentId = parentId,
                              !.calls[c].parent = getNode(s, parentId),
                              !.calls[c].pc = "getNode"])

\* POST /relations: nodeService.createRelation({sourceId, targetId, type})
NodeService_createRelation(c, sourceId, targetId, type) ==
  /\ CanStart(c)
  /\ ServiceStep(createRelationCall(startCall(service, c, "createRelation"), c,
                                    sourceId, targetId, type))

\* the event loop resumes the call in slot c
NodeService_resume(c) ==
  /\ c \in DOMAIN service.calls
  /\ ~Settled(service.calls[c])
  /\ ServiceStep(resumeCall(service, c))

\* the store right after construction
EmptyStore ==
  /\ nodes = <<>>
  /\ relations = <<>>
  /\ conversations = <<>>
  /\ selectedNodeId = 0
  /\ history = <<>>
  /\ historyIndex = -1
  /\ nextNode = 1
  /\ nextRel = 1
  /\ nextConv = 1
  /\ nextRec = 1
  /\ context = NoContext
  /\ panel = IdlePanel
  /\ service = IdleService

Init ==
  /\ EmptyStore
  /\ lim = [nodes |-> MaxNodes, rels |-> MaxRels, convs |-> MaxConvs, msgs |-> MaxMsgs,
            recs |-> MaxPushes]

\* ids a caller can hold: 0 names nothing, the others were handed out before
\* (the node may have been deleted since)
KnownIds == 0..(nextNode - 1)

Next ==
  \/ createRootNode
  \/ \E parentId \in KnownIds : createChildNode(parentId)
  \/ \E node \in AddNodeInputs : addNode(nextNode, node)
  \/ \E id \in KnownIds, updates \in UpdateInputs : updateNode(id, updates)
  \/ \E id \in KnownIds : deleteNode(id)
  \/ \E sourceId \in KnownIds \ {0}, targetId \in KnownIds \ {0}, type \in RelationTypes :
       sourceId # targetId /\ addRelation(sourceId, targetId, type)
  \/ \E id \in 1..(nextRel - 1) : deleteRelation(id)
  \/ \E nodeId \in DOMAIN nodes \cap {selectedNodeId} : addConversation(nodeId)
  \/ \E conversationId \in DOMAIN conversations, role \in Roles :
       addMessage(conversationId, [role |-> role, content |-> [text |-> "m"]])
  \/ undo
  \/ redo

Spec == Init /\ [][Next]_vars

\* -------------------------------------------- trees, deleted with their chats
InitTree ==
  /\ EmptyStore
  /\ lim = [nodes |-> MaxNodes, rels |-> MaxRels, convs |-> MaxConvs, msgs |-> MaxMsgs,
            recs |-> TreePushes]

NextTree ==
  \/ createRootNode
  \/ \E parentId \in KnownIds : createChildNode(parentId)
  \/ \E id \in KnownIds : deleteNode(id)
  \/ \E nodeId \in DOMAIN nodes \cap {selectedNodeId} : addConversation(nodeId)
  \/ \E conversationId \in DOMAIN conversations, role \in Roles :
       addMessage(conversationId, [role |-> role, content |-> [text |-> "m"]])

SpecTree == InitTree /\ [][NextTree]_vars

\* ------------------------------------- createRootNode and createChildNode only
InitCreate ==
  /\ EmptyStore
  /\ lim = [nodes |-> CreateNodes, rels |-> CreateNodes, convs |-> 0, msgs |-> 0,
            recs |-> CreateNodes]

NextCreate ==
  \/ createRootNode
  \/ \E parentId \in KnownIds : createChildNode(parentId)

SpecCreate == InitCreate /\ [][NextCreate]_vars

\* ------------------------------------------------ a history that is full
\* the store after createRootNode, createChildNode on that root and then
\* MAX_HISTORY_SIZE - 2 calls of updateNode that un-hide the root: the history
\* holds MAX_HISTORY_SIZE records and the next push evicts
FullHistory ==
  /\ nodes = createChildNodes(
               MapSet(<<>>, 1, createDefaultNode("root", [x |-> 100 * 1000, y |-> 100 * 1000], TRUE)),
               1, 2)
  /\ relations = <<[id |-> 1, sourceId |-> 1, targetId |-> 2, type |-> "parent-child"]>>
  /\ conversations = <<>>
  /\ selectedNodeId = 2
  /\ history = [i \in 1..MAX_HISTORY_SIZE |->
                  HistoryRecord(i, IF i <= 2 THEN "create_node" ELSE "update_node")]
  /\ historyIndex = MAX_HISTORY_SIZE - 1
  /\ nextNode = 3
  /\ nextRel = 2
  /\ nextConv = 1
  /\ nextRec = MAX_HISTORY_SIZE + 1
  /\ context = NoContext
  /\ panel = IdlePanel
  /\ service = IdleService
  /\ lim = [nodes |-> 2 + HistNodes, rels |-> 1 + HistRels, convs |-> 0, msgs |-> 0,
            recs |-> MAX_HISTORY_SIZE + HistPushes]

\* a run starts from the empty store or from the store with a full history
InitHistory ==
  \/ /\ EmptyStore
     /\ lim = [nodes |-> MaxNodes, rels |-> MaxRels, convs |-> 0, msgs |-> 0,
               recs |-> MaxPushes]
  \/ FullHistory

\* the history-recording mutators, undo and redo
NextHistory ==
  \/ createRootNode
  \/ \E parentId \in KnownIds : createChildNode(parentId)
  \/ \E node \in AddNodeInputs : addNode(nextNode, node)
  \/ \E id \in KnownIds, updates \in UpdateInputs : updateNode(id, updates)
  \/ \E id \in KnownIds : deleteNode(id)
  \/ \E sourceId \in KnownIds \ {0}, targetId \in KnownIds \ {0}, type \in RelationTypes :
       sourceId # targetId /\ addRelation(sourceId, targetId, type)
  \/ \E id \in 1..(nextRel - 1) : deleteRelation(id)
  \/ undo
  \/ redo

SpecHistory == InitHistory /\ [][NextHistory]_vars

\* ------------------------------------ relations between nodes that come and go
InitRelation ==
  /\ EmptyStore
  /\ lim = [nodes |-> MaxNodes, rels |-> MaxRels, convs |-> 0, msgs |-> 0,
            recs |-> RelationPushes]

\* nodes are created and deleted, relations are drawn between ids handed out
\* before (the relation editor refuses an empty id and a relation from a node
\* to itself) and deleted
NextRelation ==
  \/ createRootNode
  \/ \E parentId \in KnownIds : createChildNode(parentId)
  \/ \E id \in KnownIds : deleteNode(id)
  \/ \E sourceId \in KnownIds \ {0}, targetId \in KnownIds \ {0}, type \in RelationTypes :
       sourceId # targetId /\ addRelation(sourceId, targetId, type)
  \/ \E id \in 1..(nextRel - 1) : deleteRelation(id)

SpecRelation == InitRelation /\ [][NextRelation]_vars

\* ------------------------------------- nodes aggregated, expanded and collapsed
InitComposite ==
  /\ EmptyStore
  /\ lim = [nodes |-> CompositeNodes, rels |-> 0, convs |-> 0, msgs |-> 0,
            recs |-> CompositePushes]

\* lists of two different ids, as the canvas selection builds them
MemberLists == {<<a, b>> : a \in KnownIds \ {0}, b \in KnownIds \ {0}} \ {<<a, a>> : a \in KnownIds}

\* roots are created, aggregated (the creator wants at least two selected
\* nodes), expanded and collapsed, un-hidden by the canvas and deleted
NextComposite ==
  \/ createRootNode
  \/ \E nodeIds \in MemberLists : createCompositeNode(nodeIds, "composite")
  \/ \E nodeId \in KnownIds : expandCompositeNode(nodeId)
  \/ \E id \in KnownIds : updateNode(id, [hidden |-> FALSE, compositeParent |-> 0])
  \/ \E id \in KnownIds : deleteNode(id)

SpecComposite == InitComposite /\ [][NextComposite]_vars

\* --------------------------------------------- chat turns between graph edits
InitChat ==
  /\ EmptyStore
  /\ lim = [nodes |-> ChatNodes, rels |-> ChatNodes, convs |-> ChatConvs, msgs |-> ChatMsgs,
            recs |-> ChatPushes]

\* nodes are created, selected and deleted while the panel sends chat turns
\* for the selected node and its calls return
NextChat ==
  \/ createRootNode
  \/ \E parentId \in DOMAIN nodes : createChildNode(parentId)
  \/ \E id \in DOMAIN nodes \cup {0} : selectNode(id)
  \/ \E id \in DOMAIN nodes : deleteNode(id)
  \/ handleSend
  \/ \E result \in ChatResults : handleSendResume(result)
  \/ handleClear

SpecChat == InitChat /\ [][NextChat]_vars

\* ------------------------------------------- stores persisted and loaded again
\* a node as an older version of the store persisted it, without the fields
\* migrateNodeData fills in
OldNode(isRoot, parentIds, childrenIds) ==
  [title |-> "old", isRoot |-> isRoot, isComposite |-> FALSE, conversationId |-> 0,
   position |-> [x |-> 0, y |-> 0], parentIds |-> parentIds, childrenIds |-> childrenIds]

\* relations found in a persisted state: a complete one, and ones with a field
\* missing or null
StoredRelations ==
  {[id |-> 1, sourceId |-> 1, targetId |-> 2, type |-> "parent-child"],
   [id |-> 2, sourceId |-> 1, targetId |-> 2],
   [id |-> 3, sourceId |-> 2, type |-> "supports"],
   [sourceId |-> 1, targetId |-> 2, type |-> "supports"],
   <<>>}

StoredRelationLists ==
  UNION {[1..n -> StoredRelations] : n \in 0..ImportRels}

\* persisted states that were not written by this run: two nodes of the old
\* format, linked or not, with relations in one of the formats
PersistedInputs ==
  {[nodes |-> <<(<<1, OldNode(TRUE, <<>>, c)>>), (<<2, OldNode(FALSE, p, <<>>)>>)>>,
    relations |-> [format |-> f,
                   items |-> IF f = "entries"
                             THEN [i \in 1..Len(items) |-> <<Field(items[i], "id"), items[i]>>]
                             ELSE items],
    conversations |-> <<>>] :
     c \in {<<>>, <<2>>}, p \in {<<>>, <<1>>}, f \in {"none", "list", "entries"},
     items \in StoredRelationLists}

InitImport ==
  /\ EmptyStore
  /\ lim = [nodes |-> MaxNodes, rels |-> MaxNodes, convs |-> 0, msgs |-> 0,
            recs |-> ImportPushes]

\* the page is loaded with a persisted state from elsewhere or with the state
\* this run persisted; in between the graph is edited
NextImport ==
  \/ \E persisted \in PersistedInputs : rehydrate(persisted)
  \/ rehydrate(partialize)
  \/ createRootNode
  \/ \E parentId \in DOMAIN nodes : createChildNode(parentId)
  \/ \E id \in 1..(nextRel - 1) : deleteRelation(id)

SpecImport == InitImport /\ [][NextImport]_vars

\* the node service takes overlapping requests; neo4j is connected or not
InitService ==
  /\ nodes = <<>>
  /\ relations = <<>>
  /\ conversations = <<>>
  /\ selectedNodeId = 0
  /\ history = <<>>
  /\ historyIndex = -1
  /\ nextNode = 1
  /\ nextRel = 1
  /\ nextConv = 1
  /\ nextRec = 1
  /\ context = NoContext
  /\ panel = IdlePanel
  /\ \E connected \in BOOLEAN :
       service = [IdleService EXCEPT !.connected = connected,
                                     !.calls = [c \in 1..ServiceCalls |-> NoCall]]
  /\ lim = [nodes |-> ServiceNodes, rels |-> MaxRels, convs |-> MaxConvs, msgs |-> MaxMsgs,
            recs |-> MaxPushes, calls |-> ServiceStarts]

\* ids a client can send: '' (0), the id of a node a call has returned, and an
\* id no node ever gets
ServiceIds == {0} \cup DOMAIN service.memoryNodes \cup {lim.nodes + 1}

ServiceRelationTypes == {"parent-child", "supports"}

NextService ==
  \E c \in 1..ServiceCalls :
    \/ NodeService_createNode(c)
    \/ \E parentId \in ServiceIds : NodeService_createChildNode(c, parentId)
    \/ \E sourceId \in ServiceIds, targetId \in ServiceIds, type \in ServiceRelationTypes :
         NodeService_createRelation(c, sourceId, targetId, type)
    \/ NodeService_resume(c)

SpecService == InitService /\ [][NextService]_vars

\* ------------------------------- graphs: nodes with more than one parent
\* node records for addNode whose parents are stored nodes, none, one or two
SharedChildInputs ==
  {Merge(createDefaultNode("node", [x |-> 0, y |-> 0], FALSE), [parentIds |-> ps]) :
     ps \in {<<>>} \cup {<<p>> : p \in DOMAIN nodes}
            \cup {ps \in (DOMAIN nodes) \X (DOMAIN nodes) : ps[1] # ps[2]}}

InitGraph ==
  /\ EmptyStore
  /\ lim = [nodes |-> GraphNodes, rels |-> GraphNodes, convs |-> 0, msgs |-> 0,
            recs |-> GraphPushes]

NextGraph ==
  \/ createRootNode
  \/ \E parentId \in KnownIds : createChildNode(parentId)
  \/ \E node \in SharedChildInputs : addNode(nextNode, node)
  \/ \E id \in KnownIds : deleteNode(id)

SpecGraph == InitGraph /\ [][NextGraph]_vars

\* ------------------------------------- contexts resolved over parent chains
\* the nodes map after createChildNode(from - 1), ..., createChildNode(to - 1),
\* called in this order: each call gives the node created before it a child,
\* and a call whose parent is not in the map returns '' and stores nothing
RECURSIVE createChildChain(_, _, _)
createChildChain(m, from, to) ==
  IF from = to
  THEN IF from - 1 \in DOMAIN m THEN createChildNodes(m, from - 1, from) ELSE m
  ELSE LET mid == (from + to) \div 2
           half == createChildChain(m, from, mid)
       IN IF mid \notin DOMAIN half THEN half ELSE createChildChain(half, mid + 1, to)

\* the nodes map after createRootNode and then createChildNode on the newest
\* node, until there are n nodes: node i + 1 is the child of node i
ChainNodes(n) ==
  createChildChain(
    MapSet(<<>>, 1, createDefaultNode("root", [x |-> 100 * 1000, y |-> 100 * 1000], TRUE)),
    2, n)

\* what the chat panel stores for one exchange in the chat of node i: the
\* user's message and the assistant's reply
Exchange(i) ==
  <<[role |-> "user", content |-> [text |-> i]],
    [role |-> "assistant", content |-> [text |-> -i]]>>

\* <<mute, blank>>: node mute was never chatted in, the chat of node blank was
\* opened and holds no message yet; 0 names no node
ChatPatterns == {<<0, 0>>, <<1, 0>>, <<0, 1>>}

\* the store after a chain of L nodes was created and the nodes were chatted in
ChainStore(L, mute, blank) ==
  /\ nodes = LET chain == ChainNodes(L)
             IN [i \in 1..L |->
                   Merge(chain[i], [conversationId |-> IF i = mute THEN 0 ELSE i])]
  /\ relations = [i \in 1..(L - 1) |->
                    [id |-> i, sourceId |-> i, targetId |-> i + 1, type |-> "parent-child"]]
  /\ conversations = [i \in (1..L) \ {mute} |->
                        [nodeId |-> i, messages |-> IF i = blank THEN <<>> ELSE Exchange(i)]]
  /\ selectedNodeId = L
  /\ history = [i \in 1..L |-> HistoryRecord(i, "create_node")]
  /\ historyIndex = L - 1
  /\ nextNode = L + 1
  /\ nextRel = L
  /\ nextConv = L + 1
  /\ nextRec = L + 1
  /\ context = NoContext
  /\ panel = IdlePanel
  /\ service = IdleService
  /\ lim = [nodes |-> L, rels |-> L - 1 + ContextEdits, convs |-> L, msgs |-> 2,
            recs |-> L + ContextEdits]

\* a short chain with any of the chat patterns, or the long chain with a chat
\* in every node
InitContext ==
  \/ \E L \in {2, ShortChain}, pattern \in ChatPatterns : ChainStore(L, pattern[1], pattern[2])
  \/ ChainStore(LongChain, 0, 0)

\* the ids a caller picks: the two ends of the chain and their neighbours
ContextEnds == {1, 2, nextNode - 2, nextNode - 1} \cap DOMAIN nodes

NextContext ==
  \/ \E sourceId \in ContextEnds, targetId \in ContextEnds, type \in RelationTypes :
       sourceId # targetId /\ addRelation(sourceId, targetId, type)
  \/ \E id \in ContextEnds, parentId \in ContextEnds :
       updateNode(id, [parentIds |-> <<parentId>>])
  \/ \E nodeId \in ContextEnds : getConversationContext(nodeId)

SpecContext == InitContext /\ [][NextContext]_vars

\* ------------------------------------------- contexts over short chains only
InitIsolation ==
  \E L \in {2, ShortChain}, pattern \in ChatPatterns : ChainStore(L, pattern[1], pattern[2])

SpecIsolation == InitIsolation /\ [][NextContext]_vars

\* ==================================================================== claims
HasParentChildRelation(P, C) ==
  \E i \in 1..Len(relations) :
    /\ relations[i].type = "parent-child"
    /\ relations[i].sourceId = P
    /\ relations[i].targetId = C

HasOwnershipLink(P, C) ==
  /\ P \in DOMAIN nodes
  /\ C \in DOMAIN nodes
  /\ Includes(nodes[P].childrenIds, C)
  /\ Includes(nodes[C].parentIds, P)

\* C1: in every reachable state of the store, a parent-child relation from P to C
\* exists if and only if C is in P.childrenIds and P is in C.parentIds
C1_ParentChildConsistent ==
  \A P \in 0..lim.nodes, C \in 0..lim.nodes :
    HasParentChildRelation(P, C) <=> HasOwnershipLink(P, C)

\* C2: deleteNode(X) on an existing node X leaves none of X and its descendants
\* along childrenIds in nodes, none of their conversations in conversations, and
\* no relation whose source or target is one of them
C2_CascadeDelete ==
  [][\A X \in DOMAIN nodes :
       deleteNode(X) =>
         LET deleted == ChildClosure(nodes, {X})
         IN /\ deleted \cap DOMAIN nodes' = {}
            /\ \A n \in deleted : nodes[n].conversationId \notin DOMAIN conversations'
            /\ \A c \in DOMAIN conversations' : conversations'[c].nodeId \notin deleted
            /\ \A i \in 1..Len(relations') :
                 /\ relations'[i].sourceId \notin deleted
                 /\ relations'[i].targetId \notin deleted]_vars

\* a call of one of the six mutators that the history is said to record
RecordedCall ==
  \/ createRootNode
  \/ \E parentId \in KnownIds : createChildNode(parentId)
  \/ \E id \in KnownIds, updates \in UpdateInputs : updateNode(id, updates)
  \/ \E id \in KnownIds : deleteNode(id)
  \/ \E sourceId \in KnownIds \ {0}, targetId \in KnownIds \ {0}, type \in RelationTypes :
       sourceId # targetId /\ addRelation(sourceId, targetId, type)
  \/ \E id \in 1..(nextRel - 1) : deleteRelation(id)

\* nodes, relations and conversations of a value of Store
DataOf(s) == <<s.nodes, s.relations, s.conversations>>

\* C3: for a single mutating operation from S to S', undo right after it makes
\* nodes, relations and conversations those of S, and redo right after that undo
\* makes them those of S'
C3_UndoRedoInverse ==
  [][RecordedCall =>
       LET S == Store(nodes, relations, conversations, history, historyIndex)
           S1 == Store(nodes', relations', conversations', history', historyIndex')
           undone == undoStore(S1)
           redone == redoStore(undone)
       IN /\ DataOf(undone) = DataOf(S)
          /\ DataOf(redone) = DataOf(S1)]_vars

\* the node has a conversation that holds at least one message
HasMessages(n) ==
  /\ n \in DOMAIN nodes
  /\ nodes[n].conversationId \in DOMAIN conversations
  /\ conversations[nodes[n].conversationId].messages # <<>>

\* the block of a node: its system marker, then its messages in stored order
BlockOf(n) == <<nodeMarker(nodes[n])>> \o conversations[nodes[n].conversationId].messages

\* the positions of msgs at which the block of node n starts
BlockStarts(msgs, n) ==
  LET block == BlockOf(n)
  IN {i \in 1..(Len(msgs) - Len(block) + 1) :
        \A k \in 1..Len(block) : msgs[i + k - 1] = block[k]}

Emitted(msgs, n) == HasMessages(n) /\ BlockStarts(msgs, n) # {}

\* the parentIds of node n and the sources of the relations that target it
Prerequisites(n) ==
  Range(nodes[n].parentIds) \cup
  {relations[i].sourceId : i \in {j \in 1..Len(relations) : relations[j].targetId = n}}

\* what is reached from the ids S in at most k steps along Prerequisites
RECURSIVE WithinSteps(_, _)
WithinSteps(S, k) ==
  LET T == S \cup UNION {Prerequisites(n) : n \in S \cap DOMAIN nodes}
  IN IF k = 0 \/ T = S THEN S ELSE WithinSteps(T, k - 1)

\* parent links and relations together contain no cycle
NoCycle ==
  \A n \in DOMAIN nodes : n \notin WithinSteps(Prerequisites(n), Cardinality(DOMAIN nodes))

\* a call of getConversationContext has returned something new: no other
\* operation changes context
Resolved == context' # context

\* C4: in a graph whose parent links and relations contain no cycle, every emitted
\* block comes after the block of each emitted parent and of each emitted source of
\* a relation that targets the node; and for a parent chain A, B, C the context of
\* C is the block of A, then the block of B, then the block of C
C4_PrerequisitesFirst ==
  [][Resolved =>
       /\ NoCycle =>
            \A n \in DOMAIN nodes : \A p \in Prerequisites(n) :
              (Emitted(context'.messages, n) /\ Emitted(context'.messages, p)) =>
                \A i \in BlockStarts(context'.messages, n),
                   j \in BlockStarts(context'.messages, p) : j < i
       /\ \A C \in {context'.nodeId} \cap DOMAIN nodes :
            \A B \in Range(nodes[C].parentIds) \cap DOMAIN nodes :
              \A A \in Range(nodes[B].parentIds) \cap DOMAIN nodes :
                (/\ Prerequisites(C) = {B}
                 /\ Prerequisites(B) = {A}
                 /\ Prerequisites(A) = {}
                 /\ HasMessages(A) /\ HasMessages(B) /\ HasMessages(C))
                  => context'.messages = BlockOf(A) \o BlockOf(B) \o BlockOf(C)]_vars

\* how often the message msg occurs in msgs
Occurrences(msgs, msg) == Cardinality({i \in 1..Len(msgs) : msgs[i] = msg})

HasSupports(A, B) ==
  \E i \in 1..Len(relations) :
    /\ relations[i].type = "supports"
    /\ relations[i].sourceId = A
    /\ relations[i].targetId = B

\* A and B support each other, both have messages, and msgs holds each message
\* of A and of B exactly once
EachOnceInCycle(msgs, A, B) ==
  /\ A # B
  /\ HasSupports(A, B) /\ HasSupports(B, A)
  /\ HasMessages(A) /\ HasMessages(B)
  /\ \A n \in {A, B} : \A k \in 1..Len(conversations[nodes[n].conversationId].messages) :
       Occurrences(msgs, conversations[nodes[n].conversationId].messages[k]) = 1

\* C5: getConversationContext returns on every graph, cycles through relations and
\* through parentIds included, after at most one call of collectNodeOrder for the
\* start and one per parent link and relation; no node is in the order twice and no
\* block is emitted twice; and in a two-node supports cycle A, B where both have
\* messages the context of A holds the messages of A once and those of B once
C5_TerminatesEachOnce ==
  [][Resolved =>
       /\ context'.returned
       /\ context'.calls <= MaxCalls(nodes, relations)
       /\ \A i, j \in 1..Len(context'.nodeOrder) :
            i # j => context'.nodeOrder[i] # context'.nodeOrder[j]
       /\ \A n \in DOMAIN nodes :
            HasMessages(n) => Cardinality(BlockStarts(context'.messages, n)) <= 1
       /\ \A A \in {context'.nodeId} \cap DOMAIN nodes : \A B \in DOMAIN nodes :
            (A # B /\ HasSupports(A, B) /\ HasSupports(B, A) /\ HasMessages(A) /\ HasMessages(B))
              => EachOnceInCycle(context'.messages, A, B)]_vars

\* the context of a node in a two-node supports cycle was resolved: it holds the
\* messages of both nodes once each
C5_Witness ==
  /\ context.returned
  /\ \E A \in {context.nodeId} \cap DOMAIN nodes : \E B \in DOMAIN nodes :
       EachOnceInCycle(context.messages, A, B)

\* C6: the block of N is emitted if and only if N has a conversation with at least
\* one message and N is reached from T along parentIds and relations, from target
\* to source, in at most MAX_CONTEXT_DEPTH steps; the call returns without error
C6_EmittedIffWithinDepth ==
  [][Resolved =>
       /\ context'.returned
       /\ \A N \in DOMAIN nodes :
            Emitted(context'.messages, N)
              <=> (HasMessages(N) /\ N \in WithinSteps({context'.nodeId}, MAX_CONTEXT_DEPTH))]_vars

\* ids along parentIds from the set S, S included
RECURSIVE ParentClosure(_, _)
ParentClosure(m, S) ==
  LET T == S \cup UNION {Range(m[n].parentIds) : n \in S \cap DOMAIN m}
  IN IF T = S THEN S ELSE ParentClosure(m, T)

\* ids along parent-child relations from target to source, from the set S
RECURSIVE RelationParentClosure(_, _)
RelationParentClosure(rels, S) ==
  LET T == S \cup {rels[i].sourceId : i \in {j \in 1..Len(rels) :
                      rels[j].type = "parent-child" /\ rels[j].targetId \in S}}
  IN IF T = S THEN S ELSE RelationParentClosure(rels, T)

\* C7: after any sequence of createRootNode and createChildNode calls no node is
\* its own ancestor, along parentIds or along parent-child relations
C7_Acyclic ==
  \A n \in DOMAIN nodes :
    /\ n \notin ParentClosure(nodes, Range(nodes[n].parentIds))
    /\ n \notin RelationParentClosure(relations,
                  {relations[i].sourceId : i \in {j \in 1..Len(relations) :
                      relations[j].type = "parent-child" /\ relations[j].targetId = n}})

\* a node with a grandparent: createChildNode acted on a child
C7_Witness ==
  \E n \in DOMAIN nodes :
    \E p \in Range(nodes[n].parentIds) \cap DOMAIN nodes : nodes[p].parentIds # <<>>

HistoryInRange ==
  /\ Len(history) <= MAX_HISTORY_SIZE
  /\ -1 <= historyIndex
  /\ historyIndex <= Len(history) - 1

\* C8: the history never holds more than MAX_HISTORY_SIZE records, historyIndex
\* stays between -1 and the last position, and a push onto a full history whose
\* index is at the end discards the oldest record
C8_HistoryBounded ==
  /\ HistoryInRange
  /\ [][/\ HistoryInRange'
        /\ (nextRec' # nextRec /\ historyIndex + 1 = MAX_HISTORY_SIZE)
             => /\ Len(history') = MAX_HISTORY_SIZE
                /\ \A i \in 1..(MAX_HISTORY_SIZE - 1) : history'[i] = history[i + 1]]_vars

\* the history is full and its oldest record is no longer the first one pushed
C8_Witness ==
  /\ Len(history) = MAX_HISTORY_SIZE
  /\ history[1].id > 1

RecordIds(h) == {h[i].id : i \in 1..Len(h)}

\* C9: a recorded action discards the redo branch: the records after the old
\* historyIndex are gone, the new record is the last one, historyIndex points at
\* it, and redo changes nothing
C9_RedoBranchDiscarded ==
  [][nextRec' # nextRec =>
       /\ \A i \in (historyIndex + 2)..Len(history) : history[i].id \notin RecordIds(history')
       /\ history'[Len(history')].id = nextRec
       /\ nextRec \notin RecordIds(history)
       /\ historyIndex' = Len(history') - 1
       /\ LET S1 == Store(nodes', relations', conversations', history', historyIndex')
          IN redoStore(S1) = S1]_vars

\* a record was pushed after an undo: the ids of the records have a gap
C9_Witness ==
  /\ historyIndex = Len(history) - 1
  /\ \E i \in 1..(Len(history) - 1) : history[i + 1].id > history[i].id + 1

\* C10 as stated: every call of the six mutators leaves the records up to the old
\* historyIndex followed by one new record
C10_Original ==
  [][RecordedCall =>
       /\ Len(history') = historyIndex + 2
       /\ SubSeq(history', 1, historyIndex + 1) = SubSeq(history, 1, historyIndex + 1)
       /\ history'[Len(history')].id \notin RecordIds(history)]_vars

\* C10 amended: a call that gets past its guard (createChildNode with an existing
\* parent, deleteNode whose recursion ends, the other four always) pushes one new
\* record after the records up to the old historyIndex, and the oldest of these
\* is dropped when that makes more than MAX_HISTORY_SIZE
C10_OneRecordPerCall ==
  [][RecordedCall =>
       LET kept == SubSeq(history, 1, historyIndex + 1)
           drop == IF Len(kept) + 1 > MAX_HISTORY_SIZE THEN 1 ELSE 0
       IN /\ nextRec' = nextRec + 1
          /\ Len(history') = Len(kept) + 1 - drop
          /\ \A i \in 1..(Len(history') - 1) : history'[i] = kept[i + drop]
          /\ history'[Len(history')].id = nextRec
          /\ nextRec \notin RecordIds(history)]_vars

\* a call was recorded on a full history: the newest record is at the end and the
\* first record ever pushed is gone
C10_Witness ==
  /\ Len(history) = MAX_HISTORY_SIZE
  /\ historyIndex = MAX_HISTORY_SIZE - 1
  /\ history[1].id = 2
  /\ history[MAX_HISTORY_SIZE].id = MAX_HISTORY_SIZE + 1
\* ids of the stored relations
RelationIds == {relations[i].id : i \in 1..Len(relations)}

\* C11: a mutator that is given the id of nothing stored is a no-op:
\* createChildNode on an unknown parent, updateNode and deleteNode on an unknown
\* node id and deleteRelation on an unknown relation id leave nodes, relations,
\* conversations, history and historyIndex as they were
C11_UnknownIdNoOp ==
  [][ /\ \A id \in KnownIds \ DOMAIN nodes :
           (\/ createChildNode(id)
            \/ \E updates \in UpdateInputs : updateNode(id, updates)
            \/ deleteNode(id))
           => UNCHANGED <<nodes, relations, conversations, history, historyIndex>>
      /\ \A id \in (0..(nextRel - 1)) \ RelationIds :
           deleteRelation(id)
           => UNCHANGED <<nodes, relations, conversations, history, historyIndex>>
    ]_vars

\* C12: addRelation called with a source or a target that is not the id of a
\* stored node adds no relation: a call of addRelation that changes relations
\* has both of its endpoints in nodes
C12_AddRelationNeedsEndpoints ==
  [][ \A sourceId \in KnownIds, targetId \in KnownIds, type \in RelationTypes :
        (addRelation(sourceId, targetId, type)
           /\ (sourceId \notin DOMAIN nodes \/ targetId \notin DOMAIN nodes))
        => relations' = relations
    ]_vars

\* C13: deleteRelation(id) removes exactly the relation of that id, and when
\* that relation is a parent-child relation it also removes the target from the
\* childrenIds of the source and the source from the parentIds of the target
C13_DeleteRelationUnlinks ==
  [][ \A i \in 1..Len(relations) :
        deleteRelation(relations[i].id) =>
          LET relation == relations[i]
          IN /\ relations' = withoutRelation(relations, relation.id)
             /\ Len(relations') = Len(relations) - 1
             /\ relation.type = "parent-child" =>
                  /\ relation.sourceId \in DOMAIN nodes' =>
                       ~Includes(nodes'[relation.sourceId].childrenIds, relation.targetId)
                  /\ relation.targetId \in DOMAIN nodes' =>
                       ~Includes(nodes'[relation.targetId].parentIds, relation.sourceId)
    ]_vars

\* the parentIds and childrenIds of every node stored before and after the step
\* are what they were
LinksUnchanged ==
  \A n \in DOMAIN nodes \cap DOMAIN nodes' :
     /\ nodes'[n].parentIds = nodes[n].parentIds
     /\ nodes'[n].childrenIds = nodes[n].childrenIds

\* C14: updateNode never changes the parentIds or the childrenIds of any node,
\* whatever fields the caller passes
C14_UpdateNodeKeepsLinks ==
  [][ \A id \in KnownIds, updates \in UpdateInputs :
        updateNode(id, updates) => LinksUnchanged
    ]_vars

\* the parent-child relations of rels that have P as source
ParentChildFrom(rels, P) ==
  {i \in 1..Len(rels) : rels[i].type = "parent-child" /\ rels[i].sourceId = P}

\* the children of R are listed in the order they were created, and R is the
\* source of one parent-child relation per child
ChildrenInOrder(R) ==
  LET children == nodes[R].childrenIds
  IN /\ \A i \in 1..Len(children), j \in 1..Len(children) : i < j => children[i] < children[j]
     /\ Cardinality(ParentChildFrom(relations, R)) = Len(children)
     /\ \A i \in 1..Len(children) :
          \E k \in ParentChildFrom(relations, R) : relations[k].targetId = children[i]

\* C15: createChildNode on a stored parent creates one node with
\* parentIds = [parentId] and isRoot = false, appends its id at the end of the
\* parent's childrenIds and adds exactly one parent-child relation from the
\* parent to the new node; so when only roots and children are created, a node
\* with the children C1 and C2, created in that order, has
\* childrenIds = [C1, C2] and is the source of exactly two parent-child relations
C15_CreateChildNode ==
  /\ [][ \A parentId \in DOMAIN nodes :
           createChildNode(parentId) =>
             LET id == nextNode
             IN /\ id \notin DOMAIN nodes
                /\ DOMAIN nodes' = DOMAIN nodes \cup {id}
                /\ nodes'[id].parentIds = <<parentId>>
                /\ nodes'[id].isRoot = FALSE
                /\ nodes'[parentId].childrenIds = Append(nodes[parentId].childrenIds, id)
                /\ \A n \in DOMAIN nodes \ {parentId} :
                     /\ nodes'[n].childrenIds = nodes[n].childrenIds
                     /\ nodes'[n].parentIds = nodes[n].parentIds
                /\ nodes'[parentId].parentIds = nodes[parentId].parentIds
                /\ Len(relations') = Len(relations) + 1
                /\ SubSeq(relations', 1, Len(relations)) = relations
                /\ LET relation == relations'[Len(relations')]
                   IN /\ relation.type = "parent-child"
                      /\ relation.sourceId = parentId
                      /\ relation.targetId = id
                      /\ relation.id \notin RelationIds
       ]_vars
  /\ [](\A R \in DOMAIN nodes : ChildrenInOrder(R))

\* a root has two children, created one after the other, and is the source of
\* exactly two parent-child relations
C15_Witness ==
  \E R \in DOMAIN nodes :
     /\ nodes[R].isRoot
     /\ Len(nodes[R].childrenIds) = 2
     /\ nodes[R].childrenIds[1] < nodes[R].childrenIds[2]
     /\ \A i \in 1..2 : nodes[nodes[R].childrenIds[i]].parentIds = <<R>>
     /\ Cardinality(ParentChildFrom(relations, R)) = 2

\* the composite nodes of the store
Composites == {n \in DOMAIN nodes : nodes[n].isComposite}

\* the members of the composite node id that exist
Members(id) == Range(nodes[id].compositeChildren) \cap DOMAIN nodes

\* C16: for every composite node of every reachable store, expandCompositeNode
\* called on it twice in a row leaves its expanded flag and the hidden flag of
\* each of its members as they were before the first call
C16_ToggleTwiceRestoresFlags ==
  \A id \in Composites :
     LET twice == expandCompositeNodes(expandCompositeNodes(nodes, id), id)
     IN /\ twice[id].expanded = nodes[id].expanded
        /\ \A member \in Members(id) : twice[member].hidden = nodes[member].hidden

\* node n differs between the two states of the step in the listed fields at most
SameExcept(n, fields) ==
  \A f \in DOMAIN nodes[n] \ fields : nodes'[n][f] = nodes[n][f]

\* what a step of expandCompositeNode(id) does; on collapsing, the back
\* reference of a member is either left as it was (asStated) or set to id
ExpandCompositeEffect(id, asStated) ==
  /\ relations' = relations
  /\ conversations' = conversations
  /\ DOMAIN nodes' = DOMAIN nodes
  /\ IF id \in Composites
     THEN /\ \A n \in DOMAIN nodes \ (Members(id) \cup {id}) : nodes'[n] = nodes[n]
          /\ SameExcept(id, {"expanded"})
          /\ IF nodes[id].expanded
             THEN /\ nodes'[id].expanded = FALSE
                  /\ \A member \in Members(id) :
                       /\ nodes'[member].hidden = TRUE
                       /\ nodes'[member].compositeParent =
                            IF asStated THEN nodes[member].compositeParent ELSE id
                       /\ nodes'[member].position = nodes[member].position
                       /\ SameExcept(member, {"hidden", "compositeParent"})
             ELSE /\ nodes'[id].expanded = TRUE
                  /\ \A member \in Members(id) :
                       /\ nodes'[member].hidden = FALSE
                       /\ nodes'[member].compositeParent = id
                       /\ SameExcept(member, {"hidden", "compositeParent", "position"})
     ELSE nodes' = nodes

\* C17 as stated: expandCompositeNode on a collapsed composite node shows every
\* existing member, points it back at the composite node and sets expanded; on
\* an expanded one it hides every member, leaves the compositeParent and the
\* position of each member unchanged and clears expanded; no other node, no
\* relation and no conversation changes, and for an id that is unknown or not
\* composite no node changes
C17_Original ==
  [][ \A id \in KnownIds : expandCompositeNode(id) => ExpandCompositeEffect(id, TRUE) ]_vars

\* C17, amended: as above, except that collapsing sets the compositeParent of
\* every existing member to the id of the composite node, which changes it
\* when the member pointed elsewhere
C17_ExpandCompositeEffect ==
  [][ \A id \in KnownIds : expandCompositeNode(id) => ExpandCompositeEffect(id, FALSE) ]_vars

\* a composite node that was expanded and collapsed again: its members are
\* hidden, point back at it and sit where the expansion fanned them out
C17_Witness ==
  \E id \in Composites :
     /\ ~nodes[id].expanded
     /\ Members(id) # {}
     /\ \A idx \in 1..Len(nodes[id].compositeChildren) :
          LET member == nodes[id].compositeChildren[idx]
          IN member \in DOMAIN nodes =>
               /\ nodes[member].hidden
               /\ nodes[member].compositeParent = id
               /\ nodes[member].position =
                    fanPosition(nodes[id], Len(nodes[id].compositeChildren), idx - 1)

\* C18: deleteNode on a composite node does not delete its members: each
\* member is still stored afterwards, with its compositeParent cleared and its
\* hidden flag false
C18_DeleteCompositeFreesMembers ==
  [][ \A id \in Composites :
        deleteNode(id) =>
          \A member \in Members(id) :
             /\ member \in DOMAIN nodes'
             /\ nodes'[member].compositeParent = 0
             /\ nodes'[member].hidden = FALSE
    ]_vars

\* the stored conversations whose nodeId is n
ConversationsOf(n) == {c \in DOMAIN conversations : conversations[c].nodeId = n}

\* C19: in every reachable state each node has at most one conversation: at
\* most one stored conversation has the node as nodeId, a conversationId that
\* is set names that conversation, and chat turns sent for the same node one
\* after the other do not create a second conversation for it
C19_OneConversationPerNode ==
  \A n \in KnownIds \ {0} :
     /\ Cardinality(ConversationsOf(n)) <= 1
     /\ (n \in DOMAIN nodes /\ nodes[n].conversationId # 0)
          => ConversationsOf(n) = {nodes[n].conversationId}

\* the message handleSendResume stores for result
AssistantMessage(result) == [role |-> "assistant", content |-> [text |-> result.content]]

\* what a step of handleSendResume(result) does, when the calls that count as
\* successful are those of the set successful: such a call appends its one
\* assistant message to the conversation the turn was sent from, which still
\* belongs to the node the turn was sent from, and any other call appends
\* nothing; no conversation is created and every other conversation is left alone
ResumeEffect(result, successful) ==
  LET convId == panel.convId
  IN /\ nodes' = nodes
     /\ DOMAIN conversations' = DOMAIN conversations
     /\ \A other \in DOMAIN conversations \ {convId} :
          conversations'[other] = conversations[other]
     /\ convId \in DOMAIN conversations =>
          /\ conversations[convId].nodeId = panel.nodeId
          /\ conversations'[convId].nodeId = panel.nodeId
          /\ conversations'[convId].messages =
               IF result \in successful
               THEN Append(conversations[convId].messages, AssistantMessage(result))
               ELSE conversations[convId].messages

\* while a call is in flight: a step that deletes the node the turn was sent
\* from deletes the conversation of the turn with it, and no step creates a
\* conversation, so the reply of such a call is stored nowhere
DeletedInFlight ==
  panel.isLoading =>
    /\ (panel.nodeId \in DOMAIN nodes /\ panel.nodeId \notin DOMAIN nodes')
         => panel.convId \notin DOMAIN conversations'
    /\ DOMAIN conversations' \subseteq DOMAIN conversations

\* C20 as stated: every call that the chat service reports as successful
\* appends exactly one assistant message, a failed call appends none; the
\* message goes to the conversation the turn was sent from whatever node is
\* selected when the call returns, and when that node was deleted in flight no
\* message is stored and no conversation is created again
C20_Original ==
  [][ /\ \A result \in ChatResults :
           handleSendResume(result) =>
             ResumeEffect(result, {r \in ChatResults : r.success})
      /\ DeletedInFlight ]_vars

\* C20, amended: as above, for the calls that return success with a content
\* that is not empty; a call that returns success with an empty content
\* appends nothing, like a failed one
C20_OneAssistantMessage ==
  [][ /\ \A result \in ChatResults :
           handleSendResume(result) =>
             ResumeEffect(result, {r \in ChatResults : r.success /\ r.content # ""})
      /\ DeletedInFlight ]_vars

\* a turn has completed: its conversation ends with the question and the one
\* reply, no call is in flight, and another node is selected than the one the
\* turn was sent from
C20_Witness ==
  /\ ~panel.isLoading
  /\ \E c \in DOMAIN conversations :
       LET messages == conversations[c].messages
       IN /\ Len(messages) = 2
          /\ messages[1].role = "user"
          /\ messages[2] = [role |-> "assistant", content |-> [text |-> "reply"]]
          /\ selectedNodeId \in DOMAIN nodes \ {conversations[c].nodeId}

\* C21: a chat call that fails leaves the conversations as they were before
\* the user pressed send, because messages are appended only once a reply is
\* received: neither handleSend up to its await nor the return of a failed
\* call changes conversations
C21_FailedTurnLeavesConversations ==
  [][ /\ handleSend => conversations' = conversations
      /\ \A result \in ChatResults :
           (handleSendResume(result) /\ ~(result.success /\ result.content # ""))
           => conversations' = conversations
    ]_vars

\* C22: right after the persisted store is loaded, a parent-child relation
\* from P to C is stored exactly when C is in P.childrenIds and P is in
\* C.parentIds, and every stored relation has an id, a type, a sourceId and a
\* targetId
ImportedConsistent ==
  /\ \A i \in 1..Len(relations) : WellFormedRelation(relations[i])
  /\ \A P \in DOMAIN nodes, C \in DOMAIN nodes :
       HasParentChildRelation(P, C) <=> HasOwnershipLink(P, C)

C22_ImportConsistent ==
  [][ (\E persisted \in PersistedInputs \cup {partialize} : rehydrate(persisted))
      => ImportedConsistent' ]_vars

\* the nodes linked to N: N and what is reached from it along parentIds and
\* along relations from target to source
LinkedTo(N) == WithinSteps({N}, Cardinality(DOMAIN nodes))

\* the conversations with the messages of every node outside S replaced
Overwritten(S) ==
  [c \in DOMAIN conversations |->
     IF conversations[c].nodeId \in S THEN conversations[c]
     ELSE Merge(conversations[c],
                [messages |-> <<[role |-> "user", content |-> [text |-> "elsewhere"]]>>])]

NoDuplicateRelations ==
  \A i, j \in 1..Len(service.memoryRelations) :
     LET a == service.memoryRelations[i]
         b == service.memoryRelations[j]
     IN (a.sourceId = b.sourceId /\ a.targetId = b.targetId /\ a.type = b.type) => i = j

\* the createRelation call in slot c settles in this step
CreateRelationSettles(c) ==
  /\ service.calls[c].op = "createRelation"
  /\ ~Settled(service.calls[c])
  /\ Settled(service'.calls[c])

\* C24: in every state of the node service, also one reached by overlapping
\* createRelation calls, no two stored relations have the same (sourceId,
\* targetId, type); a createRelation call that finds its triple stored
\* returns the stored relation and adds nothing; a call whose source or
\* target node does not exist throws and leaves the relation list unchanged.
C24_NoDuplicateRelations ==
  /\ [](NoDuplicateRelations)
  /\ [][\A c \in DOMAIN service.calls :
          CreateRelationSettles(c) =>
            LET call == service.calls[c]
                found == existingRelation(service.memoryRelations, call)
            IN /\ found # <<>> =>
                    /\ service'.calls[c].pc = "returned"
                    /\ service'.calls[c].result = found[1].id
                    /\ service'.memoryRelations = service.memoryRelations
               /\ (call.sourceNode = <<>> \/ call.targetNode = <<>>) =>
                    /\ service'.calls[c].pc = "thrown"
                    /\ service'.memoryRelations = service.memoryRelations
       ]_vars

\* ---- C25
\* no call of the node service is suspended at an await
Quiescent == \A c \in DOMAIN service.calls : Settled(service.calls[c])

\* what createChildNode calls run one after the other leave behind: every
\* child is in the childrenIds of its parent and has its parent-child relation
ChildLinked(childId) ==
  LET child == service.memoryNodes[childId]
  IN \A i \in 1..Len(child.parentIds) :
       LET parentId == child.parentIds[i]
       IN /\ parentId \in DOMAIN service.memoryNodes
          /\ Includes(service.memoryNodes[parentId].childrenIds, childId)
          /\ \E k \in 1..Len(service.memoryRelations) :
               /\ service.memoryRelations[k].sourceId = parentId
               /\ service.memoryRelations[k].targetId = childId
               /\ service.memoryRelations[k].type = "parent-child"

\* C25: once the createChildNode calls have run to their end, overlapping at
\* their awaits or not, every child they created is in its parent's
\* childrenIds and has its parent-child relation (no update is lost).
C25_NoLostChild ==
  Quiescent => \A childId \in DOMAIN service.memoryNodes : ChildLinked(childId)

\* ---- C26
\* C26: createRootNode puts the new root at a position that none of the roots
\* that existed before the call occupies.
C26_RootPositionFree ==
  [][createRootNode =>
       \A n \in DOMAIN nodes :
          nodes[n].isRoot => nodes[n].position # nodes'[nextNode].position
    ]_vars

\* ---- C27
\* C27: after createChildNode(parentId) on a stored parent every child of the
\* parent, the new one included, is where calculateNodePosition puts its
\* index among the children the parent has after the call.
C27_SiblingsOnFan ==
  [][\A parentId \in DOMAIN nodes :
        createChildNode(parentId) =>
          LET parent == nodes'[parentId]
              count == Len(parent.childrenIds)
          IN \A i \in 1..count :
                nodes'[parent.childrenIds[i]].position
                  = calculateNodePosition(parent, i - 1, count)
    ]_vars

\* ---- C28
\* C28: while handleSend awaits the AI service, the list it handed over is
\* the context resolved for the node followed by the new user turn, and the
\* new user turn is in that list once, as its last element.
C28_UserTurnOnceAndLast ==
  panel.isLoading =>
    LET allMessages == panel.allMessages
        last == Len(allMessages)
    IN /\ last > 0
       /\ allMessages[last].role = "user"
       /\ context.nodeId = panel.nodeId
       /\ allMessages = context.messages \o <<allMessages[last]>>
       /\ \A i \in 1..(last - 1) : allMessages[i] # allMessages[last]

\* ---- C29
\* C29: every id in the parentIds or childrenIds of a stored node is the id
\* of a stored node.
C29_NoDanglingLinks ==
  \A n \in DOMAIN nodes :
     /\ \A i \in 1..Len(nodes[n].parentIds) : nodes[n].parentIds[i] \in DOMAIN nodes
     /\ \A i \in 1..Len(nodes[n].childrenIds) : nodes[n].childrenIds[i] \in DOMAIN nodes

\* ---- C30
\* C30: selectedNodeId is null or the id of a stored node.
C30_SelectionExists == selectedNodeId = 0 \/ selectedNodeId \in DOMAIN nodes

====
